---- MODULE Spec2Model ----
(***************************************************************************)
(* Model of the sandboxed execution orchestrator of EcoCode                *)
(* (src/runner/backend_runner.py): run(), its monitor thread               *)
(* monitor_container(), the module-level Event stop_monitoring and the     *)
(* container engine as run() drives it.                                    *)
(*                                                                         *)
(* Spec        one invocation of run(), with up to MaxFaults failures of   *)
(*             its environment (engine calls that raise, a missing docker  *)
(*             command, an unparsable stats line, a clock that does not    *)
(*             advance, a container removed from outside).                 *)
(*             The request may ask for a wait timeout of its own.          *)
(* FairSpecLate two invocations of run() that overlap (main.py calls       *)
(*             backend.run() once per request): some of their behaviours,  *)
(*             with one failure of a cleanup call.                         *)
(***************************************************************************)
EXTENDS Integers, Sequences, FiniteSets, TLC

\* The invocations of run() that are modelled.
Runs == {1, 2}

\* Cap on the length of one run's local_stats_data.
MaxSamples == 2

\* Cap on the number of environment failures in a behaviour of Spec.
MaxFaults == 2

\* Exit statuses a sandboxed program may end with.
ExitCodes == {0, 1}

\* A sample's cpu_perc_str either parses as a float ("ok") or does not ("bad").
SampleKinds == {"ok", "bad"}

\* What run() finds in config.json and on disk when it starts.
ConfigKinds == {"load_error", "bad_value", "bad_type", "no_dir", "valid"}

\* end_run_time - start_run_time, as the sign the code tests.
Durations == {0, 1}

\* line 268: container_wait_timeout = 300
ContainerWaitTimeout == 300

\* Wait timeouts, in seconds, that a request may ask for.
WaitTimeouts == {60, ContainerWaitTimeout}

VARIABLES
    pc,                \* pc[r]: where invocation r of run() is
    results,           \* results[r]: the results dictionary of invocation r
    local_stats_data,  \* local_stats_data[r]: the list created at line 202
    stop_monitoring,   \* the module-level threading.Event (line 26)
    engine,            \* the engine's container named "test", if any
    container,         \* container[r]: "none" (None) or the status the handle holds
    container_name,    \* container_name[r]: the name chosen at line 200
    monitor_thread,    \* monitor_thread[r]: position of the monitor thread
    container_exit_code, \* container_exit_code[r] (line 197)
    run_duration,      \* run_duration[r] (line 194)
    hist,              \* hist[r]: what invocation r has done so far (history)
    faults,            \* environment failures still allowed in this behaviour
    wait_timeout_requested, \* the wait timeout the request asks for
    container_wait_timeout, \* container_wait_timeout[r] (line 268), 0: not set
    calc               \* a call of a pure function: its arguments and its result

vars == <<pc, results, local_stats_data, stop_monitoring, engine, container,
          container_name, monitor_thread, container_exit_code, run_duration,
          hist, faults, wait_timeout_requested, container_wait_timeout, calc>>

\* line 200: container_name = "test"
CONTAINER_NAME == "test"

NoContainer == [owner |-> 0, status |-> "absent"]

\* No call of a pure function is being looked at.
NoCall == [fn |-> "none"]

\* lines 137-151: the results dictionary with its default values.  raw_stats
\* names the list object the entry refers to: "empty" is the literal [] of
\* line 150, "local_stats_data" is the run's list (line 317 stores the list
\* itself, not a copy).
InitialResults ==
    [success |-> FALSE, error |-> "none", exit_code |-> -1, logs |-> "none",
     runtime_set |-> FALSE, samples_collected |-> 0, derived |-> "zero",
     raw_stats |-> "empty"]

\* What the caller holds once run() has returned: the dictionary, with
\* raw_stats dereferenced to the list it refers to.
ReturnedResult(r) ==
    [results[r] EXCEPT !.raw_stats =
        IF results[r].raw_stats = "local_stats_data"
        THEN local_stats_data[r] ELSE <<>>]

InitRun ==
    /\ results = [r \in Runs |-> InitialResults]
    /\ local_stats_data = [r \in Runs |-> <<>>]
    /\ stop_monitoring = FALSE
    /\ engine = NoContainer
    /\ container = [r \in Runs |-> "none"]
    /\ container_name = [r \in Runs |-> "none"]
    /\ monitor_thread = [r \in Runs |-> "none"]
    /\ container_exit_code = [r \in Runs |-> -1]
    /\ run_duration = [r \in Runs |-> 0]
    /\ hist = [r \in Runs |-> {}]
    /\ container_wait_timeout = [r \in Runs |-> 0]

\* One request: invocation 1 is called, invocation 2 never is.
Init ==
    /\ InitRun
    /\ pc = [r \in Runs |-> IF r = 1 THEN "idle" ELSE "not_invoked"]
    /\ faults = MaxFaults
    /\ wait_timeout_requested \in WaitTimeouts
    /\ calc = NoCall

\* A step in which the environment behaves / fails.
NoFault == faults' = faults
Fault == faults > 0 /\ faults' = faults - 1

Did(r, e) == hist' = [hist EXCEPT ![r] = @ \cup e]

\* Thread.is_alive(): started and not yet finished.
is_alive(r) == monitor_thread[r] \in {"loop", "stats", "append"}

(***************************************************************************)
(* run(): configuration (lines 137-203)                                    *)
(***************************************************************************)
\* load_config (lines 93-112) and the float() conversions of lines 167-176:
\* the outcome for each kind of configuration.
\*   load_error: file missing, not JSON, or a required key missing
\*   bad_value : a power value such as "abc": float() raises ValueError
\*   bad_type  : a power value such as null: float() raises TypeError
\*   no_dir    : everything valid, the code directory does not exist
ConfigOutcome(cfg) ==
    CASE cfg = "load_error" -> "Configuration Error"
      [] cfg = "bad_value"  -> "Config Data Error"
      [] cfg = "bad_type"   -> "TypeError"
      [] cfg = "no_dir"     -> "User code directory not found"
      [] OTHER              -> "ok"

StartRun(r) ==
    /\ pc[r] = "idle"
    /\ \E cfg \in ConfigKinds :
        LET out == ConfigOutcome(cfg) IN
        CASE out = "ok" ->
                \* lines 191-203
                /\ pc' = [pc EXCEPT ![r] = "connect"]
                /\ container_name' = [container_name EXCEPT ![r] = CONTAINER_NAME]
                /\ local_stats_data' = [local_stats_data EXCEPT ![r] = <<>>]
                /\ stop_monitoring' = FALSE
                /\ Did(r, {"cleared"})
                /\ UNCHANGED results
          [] out = "TypeError" ->
                \* only KeyError and ValueError are caught at line 173
                /\ pc' = [pc EXCEPT ![r] = "raised"]
                /\ Did(r, {"fatal"})
                /\ UNCHANGED <<results, container_name, local_stats_data,
                               stop_monitoring>>
          [] OTHER ->
                /\ pc' = [pc EXCEPT ![r] = "returned"]
                /\ results' = [results EXCEPT ![r].error = out]
                /\ Did(r, {"fatal"})
                /\ UNCHANGED <<container_name, local_stats_data,
                               stop_monitoring>>
    /\ NoFault
    /\ UNCHANGED <<engine, container, monitor_thread, container_exit_code,
                   run_duration>>
    /\ UNCHANGED <<wait_timeout_requested, container_wait_timeout, calc>>

(***************************************************************************)
(* run(): engine connection, image, container start (lines 205-263)        *)
(***************************************************************************)
\* lines 207-214: docker.from_env() and ping(); a failure returns through
\* the finally block with container = None.
ConnectDocker(r) ==
    /\ pc[r] = "connect"
    /\ \/ /\ pc' = [pc EXCEPT ![r] = "image"]
          /\ NoFault
          /\ UNCHANGED <<results, hist>>
       \/ /\ pc' = [pc EXCEPT ![r] = "returned"]
          /\ Fault
          /\ results' = [results EXCEPT ![r].error = "Docker Connection Error"]
          /\ Did(r, {"fatal"})
    /\ UNCHANGED <<local_stats_data, stop_monitoring, engine, container,
                   container_name, monitor_thread, container_exit_code,
                   run_duration>>
    /\ UNCHANGED <<wait_timeout_requested, container_wait_timeout, calc>>

\* lines 217-237: the image is found or built, or the build fails.
EnsureImage(r) ==
    /\ pc[r] = "image"
    /\ \/ /\ pc' = [pc EXCEPT ![r] = "run"]
          /\ NoFault
          /\ UNCHANGED <<results, hist>>
       \/ /\ pc' = [pc EXCEPT ![r] = "returned"]
          /\ Fault
          /\ results' = [results EXCEPT ![r].error = "Docker Build Error"]
          /\ Did(r, {"fatal"})
    /\ UNCHANGED <<local_stats_data, stop_monitoring, engine, container,
                   container_name, monitor_thread, container_exit_code,
                   run_duration>>
    /\ UNCHANGED <<wait_timeout_requested, container_wait_timeout, calc>>

\* lines 240-259: client.containers.run(name=container_name, detach=True).
\* The engine refuses a name that is in use; a refusal, or any other
\* failure, is an exception that reaches the handler of line 381 with
\* container and monitor_thread still None.
RunContainer(r) ==
    /\ pc[r] = "run"
    /\ \/ /\ engine.status = "absent"
          /\ engine' = [owner |-> r, status |-> "running"]
          /\ container' = [container EXCEPT ![r] = "created"]
          /\ pc' = [pc EXCEPT ![r] = "start_monitor"]
          /\ NoFault
       \/ /\ engine.status # "absent"
          /\ pc' = [pc EXCEPT ![r] = "except"]
          /\ NoFault
          /\ UNCHANGED <<engine, container>>
       \/ /\ engine.status = "absent"
          /\ pc' = [pc EXCEPT ![r] = "except"]
          /\ Fault
          /\ UNCHANGED <<engine, container>>
    /\ UNCHANGED <<results, local_stats_data, stop_monitoring, container_name,
                   monitor_thread, container_exit_code, run_duration, hist>>
    /\ UNCHANGED <<wait_timeout_requested, container_wait_timeout, calc>>

\* lines 262-263: the monitor thread is created on (container.name,
\* local_stats_data) and started.
StartMonitor(r) ==
    /\ pc[r] = "start_monitor"
    /\ monitor_thread' = [monitor_thread EXCEPT ![r] = "loop"]
    /\ pc' = [pc EXCEPT ![r] = "wait"]
    /\ NoFault
    /\ UNCHANGED <<results, local_stats_data, stop_monitoring, engine,
                   container, container_name, container_exit_code,
                   run_duration, hist>>
    /\ UNCHANGED <<wait_timeout_requested, container_wait_timeout, calc>>

(***************************************************************************)
(* run(): wait (lines 265-282)                                             *)
(***************************************************************************)
\* The exit code the handler of line 272 forces.
WaitErrorExitCode == -99

\* WaitContainer with a handler that catches APIError only: TimeoutError goes
\* to the handler of line 381.
WaitContainer_TimeoutUncaught(r) ==
    /\ pc[r] = "wait"
    /\ \/ /\ engine = [owner |-> r, status |-> "exited"]
          /\ \E c \in ExitCodes :
                container_exit_code' = [container_exit_code EXCEPT ![r] = c]
          /\ pc' = [pc EXCEPT ![r] = "end_run"]
          /\ Did(r, {"wait_completed"})
          /\ NoFault
       \/ /\ engine = [owner |-> r, status |-> "running"]
          /\ pc' = [pc EXCEPT ![r] = "except"]
          /\ Did(r, {"wait_timeout"})
          /\ NoFault
          /\ UNCHANGED container_exit_code
       \/ /\ container_exit_code' =
                [container_exit_code EXCEPT ![r] = WaitErrorExitCode]
          /\ pc' = [pc EXCEPT ![r] = "wait_reload"]
          /\ Did(r, {"wait_error"})
          /\ IF engine.owner = r THEN Fault ELSE NoFault
       \/ /\ pc' = [pc EXCEPT ![r] = "except"]
          /\ Did(r, {"wait_exception"})
          /\ Fault
          /\ UNCHANGED container_exit_code
    /\ UNCHANGED <<results, local_stats_data, stop_monitoring, engine,
                   container, container_name, monitor_thread, run_duration>>
    /\ container_wait_timeout' =
            [container_wait_timeout EXCEPT ![r] = ContainerWaitTimeout]
    /\ UNCHANGED <<wait_timeout_requested, calc>>

\* WaitContainer with the timeout taken from the request instead of line 268.
WaitContainer_RequestedTimeout(r) ==
    /\ pc[r] = "wait"
    /\ \/ /\ engine = [owner |-> r, status |-> "exited"]
          /\ \E c \in ExitCodes :
                container_exit_code' = [container_exit_code EXCEPT ![r] = c]
          /\ pc' = [pc EXCEPT ![r] = "end_run"]
          /\ Did(r, {"wait_completed"})
          /\ NoFault
       \/ /\ engine = [owner |-> r, status |-> "running"]
          /\ container_exit_code' =
                [container_exit_code EXCEPT ![r] = WaitErrorExitCode]
          /\ pc' = [pc EXCEPT ![r] = "wait_reload"]
          /\ Did(r, {"wait_timeout"})
          /\ NoFault
       \/ /\ container_exit_code' =
                [container_exit_code EXCEPT ![r] = WaitErrorExitCode]
          /\ pc' = [pc EXCEPT ![r] = "wait_reload"]
          /\ Did(r, {"wait_error"})
          /\ IF engine.owner = r THEN Fault ELSE NoFault
       \/ /\ pc' = [pc EXCEPT ![r] = "except"]
          /\ Did(r, {"wait_exception"})
          /\ Fault
          /\ UNCHANGED container_exit_code
    /\ UNCHANGED <<results, local_stats_data, stop_monitoring, engine,
                   container, container_name, monitor_thread, run_duration>>
    /\ container_wait_timeout' =
            [container_wait_timeout EXCEPT ![r] = wait_timeout_requested]
    /\ UNCHANGED <<wait_timeout_requested, calc>>

\* lines 268-274: container.wait(timeout=container_wait_timeout) returns the status code of a
\* container that has exited, raises TimeoutError while it still runs,
\* raises APIError, or raises something else.
WaitContainer(r) ==
    /\ pc[r] = "wait"
    /\ \/ /\ engine = [owner |-> r, status |-> "exited"]
          /\ \E c \in ExitCodes :
                container_exit_code' = [container_exit_code EXCEPT ![r] = c]
          /\ pc' = [pc EXCEPT ![r] = "end_run"]
          /\ Did(r, {"wait_completed"})
          /\ NoFault
       \/ /\ engine = [owner |-> r, status |-> "running"]
          /\ container_exit_code' =
                [container_exit_code EXCEPT ![r] = WaitErrorExitCode]
          /\ pc' = [pc EXCEPT ![r] = "wait_reload"]
          /\ Did(r, {"wait_timeout"})
          /\ NoFault
       \/ /\ container_exit_code' =
                [container_exit_code EXCEPT ![r] = WaitErrorExitCode]
          /\ pc' = [pc EXCEPT ![r] = "wait_reload"]
          /\ Did(r, {"wait_error"})
          /\ IF engine.owner = r THEN Fault ELSE NoFault
       \/ /\ pc' = [pc EXCEPT ![r] = "except"]
          /\ Did(r, {"wait_exception"})
          /\ Fault
          /\ UNCHANGED container_exit_code
    /\ UNCHANGED <<results, local_stats_data, stop_monitoring, engine,
                   container, container_name, monitor_thread, run_duration>>
    /\ container_wait_timeout' =
            [container_wait_timeout EXCEPT ![r] = ContainerWaitTimeout]
    /\ UNCHANGED <<wait_timeout_requested, calc>>

\* WaitReload without the status test of line 278: stop is always issued.
WaitReload_AlwaysStop(r) ==
    /\ pc[r] = "wait_reload"
    /\ \/ /\ engine.owner = r
          /\ container' = [container EXCEPT ![r] = engine.status]
          /\ pc' = [pc EXCEPT ![r] = "wait_stop"]
          /\ NoFault
          /\ UNCHANGED hist
       \/ /\ pc' = [pc EXCEPT ![r] = "end_run"]
          /\ Did(r, {"recheck_failed"})
          /\ IF engine.owner = r THEN Fault ELSE NoFault
          /\ UNCHANGED container
    /\ UNCHANGED <<results, local_stats_data, stop_monitoring, engine,
                   container_name, monitor_thread, container_exit_code,
                   run_duration>>
    /\ UNCHANGED <<wait_timeout_requested, container_wait_timeout, calc>>

\* lines 276-279 and 281-282: container.reload(), then the status test; an
\* exception of reload() is printed and dropped.  The handle then holds the
\* status the engine reported.
WaitReload(r) ==
    /\ pc[r] = "wait_reload"
    /\ \/ /\ engine.owner = r
          /\ container' = [container EXCEPT ![r] = engine.status]
          /\ pc' = [pc EXCEPT ![r] =
                IF engine.status = "running" THEN "wait_stop" ELSE "end_run"]
          /\ NoFault
          /\ UNCHANGED hist
       \/ /\ pc' = [pc EXCEPT ![r] = "end_run"]
          /\ Did(r, {"recheck_failed"})
          /\ IF engine.owner = r THEN Fault ELSE NoFault
          /\ UNCHANGED container
    /\ UNCHANGED <<results, local_stats_data, stop_monitoring, engine,
                   container_name, monitor_thread, container_exit_code,
                   run_duration>>
    /\ UNCHANGED <<wait_timeout_requested, container_wait_timeout, calc>>

\* lines 280-282: container.stop(timeout=10); an exception is printed and
\* dropped.
WaitStop(r) ==
    /\ pc[r] = "wait_stop"
    /\ \/ /\ engine.owner = r
          /\ engine' = [engine EXCEPT !.status = "exited"]
          /\ Did(r, {"wait_stop"})
          /\ NoFault
       \/ /\ Did(r, {"wait_stop", "stop_failed"})
          /\ IF engine.owner = r THEN Fault ELSE NoFault
          /\ UNCHANGED engine
    /\ pc' = [pc EXCEPT ![r] = "end_run"]
    /\ UNCHANGED <<results, local_stats_data, stop_monitoring, container,
                   container_name, monitor_thread, container_exit_code,
                   run_duration>>
    /\ UNCHANGED <<wait_timeout_requested, container_wait_timeout, calc>>

(***************************************************************************)
(* run(): stop the monitor, logs, statistics (lines 284-378)               *)
(***************************************************************************)
\* StopMonitoring without the stop_monitoring.set() of line 292.
StopMonitoring_NoSet(r) ==
    /\ pc[r] = "end_run"
    /\ \E d \in Durations :
        /\ run_duration' = [run_duration EXCEPT ![r] = d]
        /\ IF d > 0 THEN NoFault ELSE Fault
    /\ results' = [results EXCEPT ![r].runtime_set = TRUE,
                                  ![r].exit_code = container_exit_code[r]]
    /\ pc' = [pc EXCEPT ![r] = "join"]
    /\ UNCHANGED <<local_stats_data, stop_monitoring, engine, container,
                   container_name, monitor_thread, container_exit_code, hist>>
    /\ UNCHANGED <<wait_timeout_requested, container_wait_timeout, calc>>

\* lines 284-292: end time, runtime_seconds and exit_code go into results,
\* then stop_monitoring.set().  A duration that is not positive needs a
\* clock that did not advance.
StopMonitoring(r) ==
    /\ pc[r] = "end_run"
    /\ \E d \in Durations :
        /\ run_duration' = [run_duration EXCEPT ![r] = d]
        /\ IF d > 0 THEN NoFault ELSE Fault
    /\ results' = [results EXCEPT ![r].runtime_set = TRUE,
                                  ![r].exit_code = container_exit_code[r]]
    /\ stop_monitoring' = TRUE
    /\ Did(r, {"cancel"})
    /\ pc' = [pc EXCEPT ![r] = "join"]
    /\ UNCHANGED <<local_stats_data, engine, container, container_name,
                   monitor_thread, container_exit_code>>
    /\ UNCHANGED <<wait_timeout_requested, container_wait_timeout, calc>>

\* lines 293-295: monitor_thread.join(timeout=5) returns when the thread has
\* finished, or after 5 seconds with the thread still alive.
JoinMonitor(r) ==
    /\ pc[r] = "join"
    /\ Did(r, {IF is_alive(r) THEN "join_expired" ELSE "joined"})
    /\ pc' = [pc EXCEPT ![r] = "logs"]
    /\ NoFault
    /\ UNCHANGED <<results, local_stats_data, stop_monitoring, engine,
                   container, container_name, monitor_thread,
                   container_exit_code, run_duration>>
    /\ UNCHANGED <<wait_timeout_requested, container_wait_timeout, calc>>

\* What the sandboxed program may have written.
LogTexts == {"", "output"}

\* The placeholders of lines 307 and 310.
LogsNotFound == "[Error: Container not found during log retrieval]"
LogsError == "[Error retrieving logs]"

\* GetLogs with no handler around lines 301-303: a failure of reload() or
\* logs() goes to the handler of line 381.
GetLogs_Uncaught(r) ==
    /\ pc[r] = "logs"
    /\ \/ /\ engine.owner = r
          /\ \E t \in LogTexts : results' = [results EXCEPT ![r].logs = t]
          /\ Did(r, {"logs"})
          /\ pc' = [pc EXCEPT ![r] = "count"]
          /\ NoFault
       \/ /\ engine.owner # r
          /\ Did(r, {"logs", "logs_failed"})
          /\ pc' = [pc EXCEPT ![r] = "except"]
          /\ NoFault
          /\ UNCHANGED results
       \/ /\ engine.owner = r
          /\ Did(r, {"logs", "logs_failed"})
          /\ pc' = [pc EXCEPT ![r] = "except"]
          /\ Fault
          /\ UNCHANGED results
    /\ UNCHANGED <<local_stats_data, stop_monitoring, engine, container,
                   container_name, monitor_thread, container_exit_code,
                   run_duration>>
    /\ UNCHANGED <<wait_timeout_requested, container_wait_timeout, calc>>

\* GetLogs with the handlers of lines 305-310 writing their placeholder to
\* results['error'] as well.
GetLogs_FailureRecorded(r) ==
    /\ pc[r] = "logs"
    /\ \E t \in LogTexts :
        LET output == IF t = "" THEN {"no_output"} ELSE {} IN
        \/ /\ engine.owner = r
           /\ results' = [results EXCEPT ![r].logs = t]
           /\ Did(r, {"logs"} \cup output)
           /\ NoFault
        \/ /\ engine.owner # r
           /\ results' = [results EXCEPT ![r].logs = LogsNotFound,
                                           ![r].error = LogsNotFound]
           /\ Did(r, {"logs", "logs_failed"} \cup output)
           /\ NoFault
        \/ /\ engine.owner = r
           /\ results' = [results EXCEPT ![r].logs = LogsError,
                                           ![r].error = LogsError]
           /\ Did(r, {"logs", "logs_failed"} \cup output)
           /\ Fault
    /\ pc' = [pc EXCEPT ![r] = "count"]
    /\ UNCHANGED <<local_stats_data, stop_monitoring, engine, container,
                   container_name, monitor_thread, container_exit_code,
                   run_duration>>
    /\ UNCHANGED <<wait_timeout_requested, container_wait_timeout, calc>>

\* lines 299-310: container.reload() and container.logs(); NotFound and any
\* other exception leave a placeholder in results['logs'].  t is what the
\* sandboxed program wrote.
GetLogs(r) ==
    /\ pc[r] = "logs"
    /\ \E t \in LogTexts :
        LET output == IF t = "" THEN {"no_output"} ELSE {} IN
        \/ /\ engine.owner = r
           /\ results' = [results EXCEPT ![r].logs = t]
           /\ Did(r, {"logs"} \cup output)
           /\ NoFault
        \/ /\ engine.owner # r
           /\ results' = [results EXCEPT ![r].logs = LogsNotFound]
           /\ Did(r, {"logs", "logs_failed"} \cup output)
           /\ NoFault
        \/ /\ engine.owner = r
           /\ results' = [results EXCEPT ![r].logs = LogsError]
           /\ Did(r, {"logs", "logs_failed"} \cup output)
           /\ Fault
    /\ pc' = [pc EXCEPT ![r] = "count"]
    /\ UNCHANGED <<local_stats_data, stop_monitoring, engine, container,
                   container_name, monitor_thread, container_exit_code,
                   run_duration>>
    /\ UNCHANGED <<wait_timeout_requested, container_wait_timeout, calc>>

\* lines 325-339: the number of entries whose cpu_perc_str parses.
RECURSIVE CountParsed(_)
CountParsed(data) ==
    IF data = <<>> THEN 0
    ELSE (IF Head(data) = "ok" THEN 1 ELSE 0) + CountParsed(Tail(data))

\* lines 316-317: samples_collected = len(local_stats_data) and raw_stats is
\* bound to the list itself.
CountSamples(r) ==
    /\ pc[r] = "count"
    /\ results' = [results EXCEPT
            ![r].samples_collected = Len(local_stats_data[r]),
            ![r].raw_stats = "local_stats_data"]
    /\ Did(r, {"read"} \cup IF CountParsed(local_stats_data[r]) >= 1
                            THEN {"valid_sample"} ELSE {})
    /\ pc' = [pc EXCEPT ![r] = "aggregate"]
    /\ NoFault
    /\ UNCHANGED <<local_stats_data, stop_monitoring, engine, container,
                   container_name, monitor_thread, container_exit_code,
                   run_duration>>
    /\ UNCHANGED <<wait_timeout_requested, container_wait_timeout, calc>>

\* The error messages of lines 368, 372 and 375.
NoneParsedError == "Stats collected but count is zero or parsing failed."
NoStatsError == "No statistics were collected."
DurationError == "Run duration was zero or negative, cannot calculate energy."

\* line 319: if local_stats_data and run_duration > 0.  The list is read
\* here, again by the loop of line 325 and again by the elif of line 371; a
\* monitor thread that outlived the join may append between these reads.
TestStats(r) ==
    /\ pc[r] = "aggregate"
    /\ pc' = [pc EXCEPT ![r] =
            IF local_stats_data[r] # <<>> /\ run_duration[r] > 0
            THEN "aggregate_loop" ELSE "aggregate_else"]
    /\ Did(r, IF local_stats_data[r] = <<>> THEN {"saw_empty"} ELSE {})
    /\ NoFault
    /\ UNCHANGED <<results, local_stats_data, stop_monitoring, engine,
                   container, container_name, monitor_thread,
                   container_exit_code, run_duration>>
    /\ UNCHANGED <<wait_timeout_requested, container_wait_timeout, calc>>

\* ProcessStats without line 366: success is never set.
ProcessStats_NoSuccess(r) ==
    /\ pc[r] = "aggregate_loop"
    /\ IF CountParsed(local_stats_data[r]) > 0
       THEN /\ results' = [results EXCEPT ![r].derived = "computed"]
            /\ Did(r, {"stats"})
       ELSE /\ results' = [results EXCEPT ![r].error = NoneParsedError]
            /\ Did(r, {"stats", "none_parsed"})
    /\ pc' = [pc EXCEPT ![r] = "cleanup"]
    /\ NoFault
    /\ UNCHANGED <<local_stats_data, stop_monitoring, engine, container,
                   container_name, monitor_thread, container_exit_code,
                   run_duration>>
    /\ UNCHANGED <<wait_timeout_requested, container_wait_timeout, calc>>

\* ProcessStats with the stores of lines 354-358 moved out of the test of line
\* 341: the averages are stored whatever the count.
ProcessStats_StoreUncounted(r) ==
    /\ pc[r] = "aggregate_loop"
    /\ IF CountParsed(local_stats_data[r]) > 0
       THEN /\ results' = [results EXCEPT ![r].success = TRUE,
                                           ![r].derived = "computed"]
            /\ Did(r, {"stats"})
       ELSE /\ results' = [results EXCEPT ![r].error = NoneParsedError,
                                           ![r].derived = "computed"]
            /\ Did(r, {"stats", "none_parsed"})
    /\ pc' = [pc EXCEPT ![r] = "cleanup"]
    /\ NoFault
    /\ UNCHANGED <<local_stats_data, stop_monitoring, engine, container,
                   container_name, monitor_thread, container_exit_code,
                   run_duration>>
    /\ UNCHANGED <<wait_timeout_requested, container_wait_timeout, calc>>

\* lines 320-369: the loop over the list, then the averages and success, or
\* the error of line 368 when no entry was counted.
ProcessStats(r) ==
    /\ pc[r] = "aggregate_loop"
    /\ IF CountParsed(local_stats_data[r]) > 0
       THEN /\ results' = [results EXCEPT ![r].success = TRUE,
                                           ![r].derived = "computed"]
            /\ Did(r, {"stats"})
       ELSE /\ results' = [results EXCEPT ![r].error = NoneParsedError]
            /\ Did(r, {"stats", "none_parsed"})
    /\ pc' = [pc EXCEPT ![r] = "cleanup"]
    /\ NoFault
    /\ UNCHANGED <<local_stats_data, stop_monitoring, engine, container,
                   container_name, monitor_thread, container_exit_code,
                   run_duration>>
    /\ UNCHANGED <<wait_timeout_requested, container_wait_timeout, calc>>

\* StatsElse without the else branch of lines 374-376: the error of line 372
\* is recorded whatever the list holds.
StatsElse_NoDurationBranch(r) ==
    /\ pc[r] = "aggregate_else"
    /\ results' = [results EXCEPT ![r].error = NoStatsError]
    /\ Did(r, {"stats"})
    /\ pc' = [pc EXCEPT ![r] = "cleanup"]
    /\ NoFault
    /\ UNCHANGED <<local_stats_data, stop_monitoring, engine, container,
                   container_name, monitor_thread, container_exit_code,
                   run_duration>>
    /\ UNCHANGED <<wait_timeout_requested, container_wait_timeout, calc>>

\* lines 371-376: the list is empty, or else the duration was not positive.
StatsElse(r) ==
    /\ pc[r] = "aggregate_else"
    /\ results' = [results EXCEPT ![r].error =
            IF local_stats_data[r] = <<>> THEN NoStatsError ELSE DurationError]
    /\ Did(r, {"stats"})
    /\ pc' = [pc EXCEPT ![r] = "cleanup"]
    /\ NoFault
    /\ UNCHANGED <<local_stats_data, stop_monitoring, engine, container,
                   container_name, monitor_thread, container_exit_code,
                   run_duration>>
    /\ UNCHANGED <<wait_timeout_requested, container_wait_timeout, calc>>

(***************************************************************************)
(* run(): exception handler and cleanup (lines 381-416)                    *)
(***************************************************************************)
\* The error messages of lines 384 and 410.
UnexpectedError == "An unexpected error occurred during run"
CleanupFailure == "Error during container cleanup"

\* ExceptHandler without lines 387-390: the monitor is left alone.
ExceptHandler_NoCancel(r) ==
    /\ pc[r] = "except"
    /\ results' = [results EXCEPT
            ![r].error = UnexpectedError]
    /\ pc' = [pc EXCEPT ![r] = "cleanup"]
    /\ NoFault
    /\ UNCHANGED <<local_stats_data, stop_monitoring, engine, container,
                   container_name, monitor_thread, container_exit_code,
                   run_duration, hist>>
    /\ UNCHANGED <<wait_timeout_requested, container_wait_timeout, calc>>

\* lines 381-389: the error is recorded; if the monitor thread exists and is
\* alive, stop_monitoring.set() and a join follow.
ExceptHandler(r) ==
    /\ pc[r] = "except"
    /\ results' = [results EXCEPT
            ![r].error = UnexpectedError]
    /\ IF is_alive(r)
       THEN /\ stop_monitoring' = TRUE
            /\ Did(r, {"cancel"})
            /\ pc' = [pc EXCEPT ![r] = "except_join"]
       ELSE /\ pc' = [pc EXCEPT ![r] = "cleanup"]
            /\ UNCHANGED <<stop_monitoring, hist>>
    /\ NoFault
    /\ UNCHANGED <<local_stats_data, engine, container, container_name,
                   monitor_thread, container_exit_code, run_duration>>
    /\ UNCHANGED <<wait_timeout_requested, container_wait_timeout, calc>>

\* line 390: monitor_thread.join(timeout=2).
ExceptJoin(r) ==
    /\ pc[r] = "except_join"
    /\ Did(r, {IF is_alive(r) THEN "join_expired" ELSE "joined"})
    /\ pc' = [pc EXCEPT ![r] = "cleanup"]
    /\ NoFault
    /\ UNCHANGED <<results, local_stats_data, stop_monitoring, engine,
                   container, container_name, monitor_thread,
                   container_exit_code, run_duration>>
    /\ UNCHANGED <<wait_timeout_requested, container_wait_timeout, calc>>

\* CleanupError without the test of line 413.
CleanupError_Overwrite(res) ==
    [res EXCEPT !.error = CleanupFailure]

\* lines 409-414: a cleanup error goes into results only if no error is there.
CleanupError(res) ==
    IF res.error = "none"
    THEN [res EXCEPT !.error = CleanupFailure]
    ELSE res

\* CleanupReload without lines 400-403: remove follows the reload at once.
CleanupReload_NoStop(r) ==
    /\ pc[r] = "cleanup"
    /\ IF container[r] = "none"
       THEN /\ pc' = [pc EXCEPT ![r] = "returned"]
            /\ Did(r, {"cleanup"})
            /\ NoFault
            /\ UNCHANGED <<results, container>>
       ELSE \/ /\ engine.owner = r
               /\ container' = [container EXCEPT ![r] = engine.status]
               /\ pc' = [pc EXCEPT ![r] = "cleanup_remove"]
               /\ Did(r, {"cleanup"})
               /\ NoFault
               /\ UNCHANGED results
            \/ /\ engine.owner # r
               /\ pc' = [pc EXCEPT ![r] = "returned"]
               /\ Did(r, {"cleanup"})
               /\ NoFault
               /\ UNCHANGED <<results, container>>
            \/ /\ engine.owner = r
               /\ pc' = [pc EXCEPT ![r] = "returned"]
               /\ results' = [results EXCEPT ![r] = CleanupError(@)]
               /\ Did(r, {"cleanup", "cleanup_failed"})
               /\ Fault
               /\ UNCHANGED container
    /\ UNCHANGED <<local_stats_data, stop_monitoring, engine, container_name,
                   monitor_thread, container_exit_code, run_duration>>
    /\ UNCHANGED <<wait_timeout_requested, container_wait_timeout, calc>>

\* lines 395-400 and 407-416: with no container the block only returns;
\* otherwise container.reload() gives the status, raises NotFound (the
\* container is gone) or raises something else; both exceptions end the
\* cleanup and run() returns.
CleanupReload(r) ==
    /\ pc[r] = "cleanup"
    /\ IF container[r] = "none"
       THEN /\ pc' = [pc EXCEPT ![r] = "returned"]
            /\ Did(r, {"cleanup"})
            /\ NoFault
            /\ UNCHANGED <<results, container>>
       ELSE \/ /\ engine.owner = r
               /\ container' = [container EXCEPT ![r] = engine.status]
               /\ pc' = [pc EXCEPT ![r] =
                    IF engine.status = "running"
                    THEN "cleanup_stop" ELSE "cleanup_remove"]
               /\ Did(r, {"cleanup"})
               /\ NoFault
               /\ UNCHANGED results
            \/ /\ engine.owner # r
               /\ pc' = [pc EXCEPT ![r] = "returned"]
               /\ Did(r, {"cleanup"})
               /\ NoFault
               /\ UNCHANGED <<results, container>>
            \/ /\ engine.owner = r
               /\ pc' = [pc EXCEPT ![r] = "returned"]
               /\ results' = [results EXCEPT ![r] = CleanupError(@)]
               /\ Did(r, {"cleanup", "cleanup_failed"})
               /\ Fault
               /\ UNCHANGED container
    /\ UNCHANGED <<local_stats_data, stop_monitoring, engine, container_name,
                   monitor_thread, container_exit_code, run_duration>>
    /\ UNCHANGED <<wait_timeout_requested, container_wait_timeout, calc>>

\* lines 401-403: container.stop(timeout=10) and a second reload(); an
\* exception of either ends the cleanup.
CleanupStop(r) ==
    /\ pc[r] = "cleanup_stop"
    /\ \/ /\ engine.owner = r
          /\ engine' = [engine EXCEPT !.status = "exited"]
          /\ container' = [container EXCEPT ![r] = "exited"]
          /\ pc' = [pc EXCEPT ![r] = "cleanup_remove"]
          /\ Did(r, {"cleanup_stopped"})
          /\ NoFault
          /\ UNCHANGED results
       \/ /\ engine.owner # r
          /\ pc' = [pc EXCEPT ![r] = "returned"]
          /\ NoFault
          /\ UNCHANGED <<results, engine, container, hist>>
       \/ /\ engine.owner = r
          /\ pc' = [pc EXCEPT ![r] = "returned"]
          /\ results' = [results EXCEPT ![r] = CleanupError(@)]
          /\ Did(r, {"cleanup_failed"})
          /\ Fault
          /\ UNCHANGED <<engine, container>>
    /\ UNCHANGED <<local_stats_data, stop_monitoring, container_name,
                   monitor_thread, container_exit_code, run_duration>>
    /\ UNCHANGED <<wait_timeout_requested, container_wait_timeout, calc>>

\* lines 404-416: container.remove(v=True), then run() returns.
CleanupRemove(r) ==
    /\ pc[r] = "cleanup_remove"
    /\ \/ /\ engine.owner = r
          /\ engine' = NoContainer
          /\ Did(r, {"removed"})
          /\ NoFault
          /\ UNCHANGED results
       \/ /\ engine.owner # r
          /\ NoFault
          /\ UNCHANGED <<results, engine, hist>>
       \/ /\ engine.owner = r
          /\ results' = [results EXCEPT ![r] = CleanupError(@)]
          /\ Did(r, {"cleanup_failed"})
          /\ Fault
          /\ UNCHANGED engine
    /\ pc' = [pc EXCEPT ![r] = "returned"]
    /\ UNCHANGED <<local_stats_data, stop_monitoring, container,
                   container_name, monitor_thread, container_exit_code,
                   run_duration>>
    /\ UNCHANGED <<wait_timeout_requested, container_wait_timeout, calc>>

(***************************************************************************)
(* monitor_container (lines 49-91)                                         *)
(***************************************************************************)
\* line 55: the loop test on stop_monitoring; if it is not set the thread
\* enters subprocess.run(['docker', 'stats', ..., container_name]).
MonitorLoopTest(r) ==
    /\ monitor_thread[r] = "loop"
    /\ monitor_thread' = [monitor_thread EXCEPT ![r] =
            IF stop_monitoring THEN "done" ELSE "stats"]
    /\ NoFault
    /\ UNCHANGED <<pc, results, local_stats_data, stop_monitoring, engine,
                   container, container_name, container_exit_code,
                   run_duration, hist>>
    /\ UNCHANGED <<wait_timeout_requested, container_wait_timeout, calc>>

\* What one call of docker stats on the name "test" can give without a
\* failure of the environment: with no such container the command fails
\* (CalledProcessError); with one it prints a sample, or a placeholder or
\* nothing; for a container that no longer runs it may also fail.
StatsResults ==
    IF engine.status = "absent" THEN {"gone"}
    ELSE {"sample", "not_ready"} \cup
         (IF engine.status = "exited" THEN {"gone"} ELSE {})

\* What it can give when the environment fails: an unexpected error, or
\* FileNotFoundError because there is no docker command.
StatsFailures == {"error", "not_found"}

\* MonitorPoll with a gone branch that also sets the Event, as the branch of
\* lines 83-86 does.
MonitorPoll_GoneSetsSignal(r) ==
    /\ monitor_thread[r] = "stats"
    /\ \E res \in StatsResults \cup StatsFailures :
        CASE res = "sample" ->
                \* lines 66-69
                /\ Len(local_stats_data[r]) < MaxSamples
                /\ monitor_thread' = [monitor_thread EXCEPT ![r] = "append"]
                /\ NoFault
                /\ UNCHANGED <<stop_monitoring, hist>>
          [] res = "gone" ->
                \* lines 79-82
                /\ stop_monitoring' = TRUE
                /\ monitor_thread' = [monitor_thread EXCEPT ![r] = "done"]
                /\ NoFault
                /\ UNCHANGED hist
          [] res = "not_found" ->
                \* lines 83-86
                /\ stop_monitoring' = TRUE
                /\ monitor_thread' = [monitor_thread EXCEPT ![r] = "done"]
                /\ Did(r, {"tool_missing"})
                /\ Fault
          [] res = "error" ->
                \* lines 87-90
                /\ monitor_thread' = [monitor_thread EXCEPT ![r] = "loop"]
                /\ Did(r, {"poll_error"})
                /\ Fault
                /\ UNCHANGED stop_monitoring
          [] OTHER ->
                \* lines 75-78 and 90
                /\ monitor_thread' = [monitor_thread EXCEPT ![r] = "loop"]
                /\ NoFault
                /\ UNCHANGED <<stop_monitoring, hist>>
    /\ UNCHANGED <<pc, results, local_stats_data, engine, container,
                   container_name, container_exit_code, run_duration>>
    /\ UNCHANGED <<wait_timeout_requested, container_wait_timeout, calc>>

\* MonitorPoll with a break in the handler of lines 87-89.
MonitorPoll_ErrorStops(r) ==
    /\ monitor_thread[r] = "stats"
    /\ \E res \in StatsResults \cup StatsFailures :
        CASE res = "sample" ->
                \* lines 66-69
                /\ Len(local_stats_data[r]) < MaxSamples
                /\ monitor_thread' = [monitor_thread EXCEPT ![r] = "append"]
                /\ NoFault
                /\ UNCHANGED <<stop_monitoring, hist>>
          [] res = "gone" ->
                \* lines 79-82
                /\ monitor_thread' = [monitor_thread EXCEPT ![r] = "done"]
                /\ NoFault
                /\ UNCHANGED <<stop_monitoring, hist>>
          [] res = "not_found" ->
                \* lines 83-86
                /\ stop_monitoring' = TRUE
                /\ monitor_thread' = [monitor_thread EXCEPT ![r] = "done"]
                /\ Did(r, {"tool_missing"})
                /\ Fault
          [] res = "error" ->
                \* lines 87-90
                /\ monitor_thread' = [monitor_thread EXCEPT ![r] = "done"]
                /\ Did(r, {"poll_error"})
                /\ Fault
                /\ UNCHANGED stop_monitoring
          [] OTHER ->
                \* lines 75-78 and 90
                /\ monitor_thread' = [monitor_thread EXCEPT ![r] = "loop"]
                /\ NoFault
                /\ UNCHANGED <<stop_monitoring, hist>>
    /\ UNCHANGED <<pc, results, local_stats_data, engine, container,
                   container_name, container_exit_code, run_duration>>
    /\ UNCHANGED <<wait_timeout_requested, container_wait_timeout, calc>>

\* lines 57-69 and 75-90: subprocess.run returns or raises.  With a sample
\* in hand the thread goes on to line 70; "gone" and a missing docker command
\* end the thread; anything else ends the iteration.
MonitorPoll(r) ==
    /\ monitor_thread[r] = "stats"
    /\ \E res \in StatsResults \cup StatsFailures :
        CASE res = "sample" ->
                \* lines 66-69
                /\ Len(local_stats_data[r]) < MaxSamples
                /\ monitor_thread' = [monitor_thread EXCEPT ![r] = "append"]
                /\ NoFault
                /\ UNCHANGED <<stop_monitoring, hist>>
          [] res = "gone" ->
                \* lines 79-82
                /\ monitor_thread' = [monitor_thread EXCEPT ![r] = "done"]
                /\ NoFault
                /\ UNCHANGED <<stop_monitoring, hist>>
          [] res = "not_found" ->
                \* lines 83-86
                /\ stop_monitoring' = TRUE
                /\ monitor_thread' = [monitor_thread EXCEPT ![r] = "done"]
                /\ Did(r, {"tool_missing"})
                /\ Fault
          [] res = "error" ->
                \* lines 87-90
                /\ monitor_thread' = [monitor_thread EXCEPT ![r] = "loop"]
                /\ Did(r, {"poll_error"})
                /\ Fault
                /\ UNCHANGED stop_monitoring
          [] OTHER ->
                \* lines 75-78 and 90
                /\ monitor_thread' = [monitor_thread EXCEPT ![r] = "loop"]
                /\ NoFault
                /\ UNCHANGED <<stop_monitoring, hist>>
    /\ UNCHANGED <<pc, results, local_stats_data, engine, container,
                   container_name, container_exit_code, run_duration>>
    /\ UNCHANGED <<wait_timeout_requested, container_wait_timeout, calc>>

\* lines 70-74 and 90: local_stats_data.append(...), the sleep, and back to
\* the loop test.  A cpu_perc_str that does not parse is a failure of the
\* environment.
MonitorAppend(r) ==
    /\ monitor_thread[r] = "append"
    /\ \E k \in SampleKinds :
        /\ local_stats_data' = [local_stats_data EXCEPT ![r] = Append(@, k)]
        /\ IF k = "ok" THEN NoFault ELSE Fault
    /\ monitor_thread' = [monitor_thread EXCEPT ![r] = "loop"]
    /\ Did(r, IF "cancel" \notin hist[r] THEN {}
              ELSE IF "late_sample" \notin hist[r] THEN {"late_sample"}
              ELSE {"second_late_sample"})
    /\ UNCHANGED <<pc, results, stop_monitoring, engine, container,
                   container_name, container_exit_code, run_duration>>
    /\ UNCHANGED <<wait_timeout_requested, container_wait_timeout, calc>>

(***************************************************************************)
(* The engine                                                              *)
(***************************************************************************)
\* The sandboxed program ends (what container.wait() waits for, line 270).
ContainerExits ==
    /\ engine.status = "running"
    /\ engine' = [engine EXCEPT !.status = "exited"]
    /\ NoFault
    /\ UNCHANGED <<pc, results, local_stats_data, stop_monitoring, container,
                   container_name, monitor_thread, container_exit_code,
                   run_duration, hist>>
    /\ UNCHANGED <<wait_timeout_requested, container_wait_timeout, calc>>

\* The container is removed from outside run() (what the NotFound handlers
\* of lines 305-307 and 407-408 expect).
ContainerRemoved ==
    /\ engine.status # "absent"
    /\ engine' = NoContainer
    /\ Fault
    /\ UNCHANGED <<pc, results, local_stats_data, stop_monitoring, container,
                   container_name, monitor_thread, container_exit_code,
                   run_duration, hist>>
    /\ UNCHANGED <<wait_timeout_requested, container_wait_timeout, calc>>

(***************************************************************************)
(* Specifications                                                          *)
(***************************************************************************)
Orchestrator(r) ==
    \/ StartRun(r)
    \/ ConnectDocker(r)
    \/ EnsureImage(r)
    \/ RunContainer(r)
    \/ StartMonitor(r)
    \/ WaitContainer(r)
    \/ WaitReload(r)
    \/ WaitStop(r)
    \/ StopMonitoring(r)
    \/ JoinMonitor(r)
    \/ GetLogs(r)
    \/ CountSamples(r)
    \/ TestStats(r)
    \/ ProcessStats(r)
    \/ StatsElse(r)
    \/ ExceptHandler(r)
    \/ ExceptJoin(r)
    \/ CleanupReload(r)
    \/ CleanupStop(r)
    \/ CleanupRemove(r)

Monitor(r) ==
    \/ MonitorLoopTest(r)
    \/ MonitorPoll(r)
    \/ MonitorAppend(r)

Next ==
    \/ \E r \in Runs : Orchestrator(r) \/ Monitor(r)
    \/ ContainerExits
    \/ ContainerRemoved

Spec == Init /\ [][Next]_vars

\* Some behaviours of two overlapping invocations in an environment that
\* fails once: invocation 2 is called after invocation 1 has called
\* stop_monitoring.set(), and the one failure is an engine call of the
\* cleanup block (lines 399-405) that raises.  Each thread that can take a
\* step eventually takes one.
InitLate ==
    /\ InitRun
    /\ pc = [r \in Runs |-> "idle"]
    /\ faults = 1
    /\ wait_timeout_requested = ContainerWaitTimeout
    /\ calc = NoCall

LateOrchestrator(r) ==
    /\ pc[r] = "idle" /\ r # 1 => "cancel" \in hist[1]
    /\ Orchestrator(r)
    /\ faults' # faults => pc[r] \in {"cleanup", "cleanup_stop", "cleanup_remove"}

LateMonitor(r) ==
    /\ Monitor(r)
    /\ faults' = faults

NextLate ==
    \/ \E r \in Runs : LateOrchestrator(r) \/ LateMonitor(r)
    \/ ContainerExits

FairSpecLate ==
    /\ InitLate
    /\ [][NextLate]_vars
    /\ \A r \in Runs : WF_vars(LateOrchestrator(r)) /\ WF_vars(LateMonitor(r))
(***************************************************************************)
(* The power model of run() (lines 16-21 and 341-358)                      *)
(***************************************************************************)
\* Python's floats are modelled by exact fractions <<n, d>> with d > 0, kept
\* in lowest terms.
RECURSIVE GCD(_, _)
GCD(a, b) == IF b = 0 THEN a ELSE GCD(b, a % b)

Rat(n, d) == LET g == GCD(n, d) IN <<n \div g, d \div g>>

RatAdd(x, y) == Rat(x[1] * y[2] + y[1] * x[2], x[2] * y[2])

RatMul(x, y) == Rat(x[1] * y[1], x[2] * y[2])

\* x / y for y > 0
RatDiv(x, y) == Rat(x[1] * y[2], x[2] * y[1])

\* round(x, k) with scale = 10^k: the nearest multiple of 1/scale, a tie
\* going to the even one.
Round(x, scale) ==
    LET n == x[1] * scale
        q == n \div x[2]
        rem == n % x[2]
        up == 2 * rem > x[2] \/ (2 * rem = x[2] /\ q % 2 = 1)
    IN  Rat(IF up THEN q + 1 ELSE q, scale)

\* lines 16-17
CPU_QUOTA == 50000
CPU_PERIOD == 100000

\* line 21
ALLOCATED_CPU_CORES ==
    IF CPU_PERIOD > 0 THEN RatDiv(<<CPU_QUOTA, 1>>, <<CPU_PERIOD, 1>>)
    ELSE <<0, 1>>

\* The values the statistics loop and the configuration may hand to lines
\* 341-358: the totals of the loop, the count of parsed entries, the three
\* power assumptions and the run duration in seconds.
TotalCpuValues == {0, 50, 100}
TotalMemValues == {0, 512, 1024}
Counts == {1, 2, 4}
CpuWatts == {<<0, 1>>, <<2, 1>>, <<7, 2>>}
RamWatts == {<<0, 1>>, <<3, 1>>}
BaselineWatts == {<<0, 1>>, <<5, 1>>}
RunDurations == {1, 10, 3600}

PowerArgs ==
    [total_cpu_perc_val : TotalCpuValues, total_mem_mib : TotalMemValues,
     count : Counts, POWER_CPU_PER_CORE_WATT : CpuWatts,
     POWER_RAM_PER_GB_WATT : RamWatts,
     POWER_BASELINE_CONTAINER_WATT : BaselineWatts,
     run_duration : RunDurations]

\* total_avg_power_watt_calc without the baseline term of line 349.
total_avg_power_watt_calc_NoBaseline(avg_cpu, avg_mem, a) ==
    LET avg_mem_gb == RatDiv(avg_mem, <<1024, 1>>)
        avg_cpu_power_watt ==
            RatMul(RatMul(RatDiv(avg_cpu, <<100, 1>>), ALLOCATED_CPU_CORES),
                   a.POWER_CPU_PER_CORE_WATT)
        avg_ram_power_watt == RatMul(avg_mem_gb, a.POWER_RAM_PER_GB_WATT)
    IN  RatAdd(avg_cpu_power_watt, avg_ram_power_watt)

\* lines 344-349
total_avg_power_watt_calc(avg_cpu, avg_mem, a) ==
    LET avg_mem_gb == RatDiv(avg_mem, <<1024, 1>>)
        avg_cpu_power_watt ==
            RatMul(RatMul(RatDiv(avg_cpu, <<100, 1>>), ALLOCATED_CPU_CORES),
                   a.POWER_CPU_PER_CORE_WATT)
        avg_ram_power_watt == RatMul(avg_mem_gb, a.POWER_RAM_PER_GB_WATT)
    IN  RatAdd(RatAdd(avg_cpu_power_watt, avg_ram_power_watt),
               a.POWER_BASELINE_CONTAINER_WATT)

\* line 351
energy_kwh_calc(power, duration) ==
    RatMul(RatDiv(power, <<1000, 1>>), RatDiv(<<duration, 1>>, <<3600, 1>>))

\* lines 342-358: the averages, the power, the energy, and the values stored
\* in results (the first three rounded).
PowerResults(a) ==
    LET avg_cpu_perc_calc == RatDiv(<<a.total_cpu_perc_val, 1>>, <<a.count, 1>>)
        avg_mem_mib_calc == RatDiv(<<a.total_mem_mib, 1>>, <<a.count, 1>>)
        power == total_avg_power_watt_calc(avg_cpu_perc_calc,
                                           avg_mem_mib_calc, a)
    IN  [avg_cpu_perc_calc |-> avg_cpu_perc_calc,
         avg_mem_mib_calc |-> avg_mem_mib_calc,
         total_avg_power_watt_calc |-> power,
         avg_cpu_percent |-> Round(avg_cpu_perc_calc, 100),
         avg_mem_mib |-> Round(avg_mem_mib_calc, 100),
         avg_power_watt |-> Round(power, 1000),
         energy_kwh |-> energy_kwh_calc(power, a.run_duration)]

\* The variables of run() while only a pure function is looked at.
NoRun ==
    /\ InitRun
    /\ pc = [r \in Runs |-> "not_invoked"]
    /\ faults = 0
    /\ wait_timeout_requested = ContainerWaitTimeout

UnchangedRun ==
    UNCHANGED <<pc, results, local_stats_data, stop_monitoring, engine,
                container, container_name, monitor_thread,
                container_exit_code, run_duration, hist, faults,
                wait_timeout_requested, container_wait_timeout>>

InitPower ==
    /\ NoRun
    /\ calc \in {[fn |-> "power", args |-> a, done |-> FALSE, out |-> <<>>] :
                    a \in PowerArgs}

ComputePower ==
    /\ calc.fn = "power" /\ ~calc.done
    /\ calc' = [calc EXCEPT !.done = TRUE, !.out = PowerResults(calc.args)]
    /\ UnchangedRun

SpecPower == InitPower /\ [][ComputePower]_vars

(***************************************************************************)
(* parse_mem_string (lines 30-47)                                          *)
(***************************************************************************)
\* A Python str is modelled as a sequence of one-character strings.
Digits == {"0", "1", "2", "3", "4", "5", "6", "7", "8", "9"}

DigitValue(c) ==
    CASE c = "0" -> 0 [] c = "1" -> 1 [] c = "2" -> 2 [] c = "3" -> 3
      [] c = "4" -> 4 [] c = "5" -> 5 [] c = "6" -> 6 [] c = "7" -> 7
      [] c = "8" -> 8 [] OTHER -> 9

\* str.lower(), on the letters the inputs use.
LowerChar(c) ==
    CASE c = "K" -> "k" [] c = "M" -> "m" [] c = "G" -> "g"
      [] c = "I" -> "i" [] c = "B" -> "b" [] OTHER -> c

lower(str) == [i \in 1..Len(str) |-> LowerChar(str[i])]

\* str.strip()
RECURSIVE lstrip(_)
lstrip(str) ==
    IF str # <<>> /\ Head(str) = " " THEN lstrip(Tail(str)) ELSE str

RECURSIVE rstrip(_)
rstrip(str) ==
    IF str # <<>> /\ str[Len(str)] = " "
    THEN rstrip(SubSeq(str, 1, Len(str) - 1)) ELSE str

strip(str) == rstrip(lstrip(str))

\* sub in str
Contains(str, sub) ==
    \E i \in 1..(Len(str) - Len(sub) + 1) :
        SubSeq(str, i, i + Len(sub) - 1) = sub

\* str.replace(sub, ''), for a non-empty sub
RECURSIVE replace(_, _)
replace(str, sub) ==
    IF Len(str) < Len(sub) THEN str
    ELSE IF SubSeq(str, 1, Len(sub)) = sub
         THEN replace(SubSeq(str, Len(sub) + 1, Len(str)), sub)
         ELSE <<Head(str)>> \o replace(Tail(str), sub)

RECURSIVE Pow10(_)
Pow10(k) == IF k = 0 THEN 1 ELSE 10 * Pow10(k - 1)

RECURSIVE DecimalValue(_)
DecimalValue(digits) ==
    IF digits = <<>> THEN 0
    ELSE 10 * DecimalValue(SubSeq(digits, 1, Len(digits) - 1))
            + DigitValue(digits[Len(digits)])

IsDigit(c) == c \in Digits

\* float(str) for a str: surrounding blanks are dropped; an optional sign,
\* digits and at most one point with at least one digit give the value, any
\* other text of the inputs raises ValueError.
float(str) ==
    LET t == strip(str)
        signed == t # <<>> /\ Head(t) \in {"-", "+"}
        body == IF signed THEN Tail(t) ELSE t
        points == {i \in 1..Len(body) : body[i] = "."}
        digits == SelectSeq(body, IsDigit)
        valid == /\ digits # <<>>
                 /\ Cardinality(points) <= 1
                 /\ \A i \in 1..Len(body) : IsDigit(body[i]) \/ body[i] = "."
        places == IF points = {} THEN 0
                  ELSE Len(body) - (CHOOSE i \in points : TRUE)
        magnitude == DecimalValue(digits)
    IN  IF valid
        THEN [raised |-> "none",
              value |-> Rat(IF signed /\ Head(t) = "-"
                            THEN 0 - magnitude ELSE magnitude, Pow10(places))]
        ELSE [raised |-> "ValueError", value |-> <<0, 1>>]

\* lines 35-44: the conversion the branch taken applies.
MemValue(mem_str) ==
    LET kib == <<"k", "i", "b">>
        mib == <<"m", "i", "b">>
        gib == <<"g", "i", "b">>
        b == <<"b">>
        Over(f, y) == [f EXCEPT !.value = RatDiv(@, y)]
        Times(f, y) == [f EXCEPT !.value = RatMul(@, y)]
    IN  IF Contains(mem_str, kib)
        THEN Over(float(replace(mem_str, kib)), <<1024, 1>>)
        ELSE IF Contains(mem_str, mib)
        THEN float(replace(mem_str, mib))
        ELSE IF Contains(mem_str, gib)
        THEN Times(float(replace(mem_str, gib)), <<1024, 1>>)
        ELSE IF Contains(mem_str, b)
        THEN Over(float(replace(mem_str, b)), <<1024 * 1024, 1>>)
        ELSE IF mem_str = <<"0", "b">>
             THEN [raised |-> "none", value |-> <<0, 1>>]
             ELSE Over(float(mem_str), <<1024 * 1024, 1>>)

\* parse_mem_string with the 'gib' branch of lines 38-39 left out.
parse_mem_string_NoGiB(mem_str) ==
    LET str == strip(lower(mem_str))
        kib == <<"k", "i", "b">>
        mib == <<"m", "i", "b">>
        b == <<"b">>
        Over(f, y) == [f EXCEPT !.value = RatDiv(@, y)]
        r == IF Contains(str, kib)
             THEN Over(float(replace(str, kib)), <<1024, 1>>)
             ELSE IF Contains(str, mib)
             THEN float(replace(str, mib))
             ELSE IF Contains(str, b)
             THEN Over(float(replace(str, b)), <<1024 * 1024, 1>>)
             ELSE Over(float(str), <<1024 * 1024, 1>>)
    IN  IF r.raised = "ValueError"
        THEN [raised |-> "none", value |-> <<0, 1>>]
        ELSE r

\* lines 30-47: lower and strip, the conversion, and 0.0 on ValueError; any
\* other exception would leave the function.
parse_mem_string(mem_str) ==
    LET r == MemValue(strip(lower(mem_str)))
    IN  IF r.raised = "ValueError"
        THEN [raised |-> "none", value |-> <<0, 1>>]
        ELSE r

\* The texts given to parse_mem_string: a number, an optional blank, a unit in
\* some capitalisation, with or without blanks around.
NumberTexts ==
    { <<"0">>, <<"1">>, <<"5", "1", "2">>, <<"1", "0", ".", "5">>,
      <<".", "5">>, <<"-", "1">>,
      <<>>, <<"-", "-">>, <<"1", ".", "2", ".", "3">>,
      <<"g", "a", "r", "b", "a", "g", "e">> }

UnitTexts ==
    { <<"B">>, <<"b">>,
      <<"K", "i", "B">>, <<"k", "i", "b">>, <<"K", "I", "B">>,
      <<"M", "i", "B">>, <<"m", "i", "b">>, <<"M", "I", "B">>,
      <<"G", "i", "B">>, <<"g", "i", "b">>, <<"G", "I", "B">>,
      <<>> }

Blanks == { <<>>, <<" ">> }

MemStrings ==
    { pad \o n \o sep \o u \o pad :
        n \in NumberTexts, u \in UnitTexts, sep \in Blanks, pad \in Blanks }

InitParseMem ==
    /\ NoRun
    /\ calc \in {[fn |-> "parse_mem", args |-> m, done |-> FALSE,
                  out |-> [raised |-> "none", value |-> <<0, 1>>]] :
                    m \in MemStrings}

CallParseMem ==
    /\ calc.fn = "parse_mem"
    /\ ~calc.done
    /\ calc' = [calc EXCEPT !.done = TRUE, !.out = parse_mem_string(calc.args)]
    /\ UnchangedRun

SpecParseMem == InitParseMem /\ [][CallParseMem]_vars

(***************************************************************************)
(* Properties                                                              *)
(***************************************************************************)
\* run() has returned its results dictionary to the caller.
Returned(r) == pc[r] = "returned"

\* run() started a sandbox: containers.run returned a handle (line 242).
SandboxStarted(r) == container[r] # "none"

\* run() launched a monitor thread (line 263).
MonitorLaunched(r) == monitor_thread[r] # "none"

\* run() is between its first statement and its return.
Executing(r) == pc[r] \notin {"not_invoked", "idle", "returned", "raised"}

\* The join on the monitor has been attempted (line 293 or 390).
JoinAttempted(r) == hist[r] \cap {"joined", "join_expired"} # {}

\* The wait timed out or the wait call failed (line 272).
WaitFailed(r) == hist[r] \cap {"wait_timeout", "wait_error"} # {}

\* The phases that follow the wait on the normal path.
LaterPhases == {"cancel", "logs", "read", "stats", "cleanup"}

\* C1: once run() has returned after starting a sandbox, the engine holds no
\* container of that execution any more.
C1_NoSandboxLeft ==
    \A r \in Runs : Returned(r) /\ SandboxStarted(r) => engine.owner # r

\* C2: no invocation of run() ends by propagating an exception to its caller.
C2_NoExceptionPropagates ==
    \A r \in Runs : pc[r] # "raised"

\* C3: once the orchestrator has read the sample buffer, the monitor appends
\* nothing to it any more.
C3_NoAppendAfterRead ==
    [][\A r \in Runs : "read" \in hist[r] =>
            local_stats_data'[r] = local_stats_data[r]]_vars

\* C4: whenever the orchestrator reads the sample buffer (it is about to
\* aggregate it, or has read it), it has set the cancellation signal and its
\* join on the monitor has returned or timed out.
C4_ReadAfterCancelAndJoin ==
    \A r \in Runs :
        (pc[r] \in {"count", "aggregate"} \/ "read" \in hist[r])
            => "cancel" \in hist[r] /\ JoinAttempted(r)

C4_Witness ==
    \E r \in Runs : "read" \in hist[r] /\ "join_expired" \in hist[r]

\* C5: once run() has returned, the result the caller holds (raw_stats
\* included) never changes.
C5_ResultNotMutated ==
    [][\A r \in Runs : Returned(r) =>
            ReturnedResult(r)' = ReturnedResult(r)]_vars

C7_BestEffortStop ==
    \A r \in Runs :
        /\ pc[r] = "wait_stop" => container[r] = "running"
        /\ hist[r] \cap {"recheck_failed", "stop_failed"} # {} =>
            /\ pc[r] \notin {"except", "except_join", "raised"}
            /\ pc[r] = "end_run" => results[r].error = "none"
            /\ Returned(r) => LaterPhases \subseteq hist[r]

C7_Witness ==
    \E r \in Runs : Returned(r) /\ "stop_failed" \in hist[r]

\* C8 as stated: every run that launched a monitor has signalled
\* cancellation by the time it returns.
C8_CancelAlwaysSignalled ==
    \A r \in Runs : Returned(r) /\ MonitorLaunched(r) => "cancel" \in hist[r]

\* C8 as amended: a run that launched a monitor has signalled cancellation
\* by the time it returns, unless the wait raised an unexpected exception
\* and the monitor thread had already finished; and a join on the monitor
\* never blocks the orchestrator: it can always proceed.
C8_CancelSignalledOrMonitorDone ==
    \A r \in Runs :
        /\ Returned(r) /\ MonitorLaunched(r) =>
            \/ "cancel" \in hist[r]
            \/ "wait_exception" \in hist[r] /\ monitor_thread[r] = "done"
        /\ pc[r] = "join" => ENABLED JoinMonitor(r)
        /\ pc[r] = "except_join" => ENABLED ExceptJoin(r)

C8_Witness ==
    \E r \in Runs :
        /\ Returned(r)
        /\ "wait_exception" \in hist[r]
        /\ "join_expired" \in hist[r]
        /\ is_alive(r)

\* C9: once the monitor's loop test has seen the signal set the thread is
\* finished and appends nothing more; and whenever a run has signalled
\* cancellation to the monitor it launched, that monitor eventually finishes.
C9_MonitorStopsAfterCancel ==
    /\ [][\A r \in Runs :
            /\ monitor_thread[r] = "loop" /\ stop_monitoring
               /\ monitor_thread'[r] # "loop" => monitor_thread'[r] = "done"
            /\ monitor_thread[r] = "done" =>
                /\ monitor_thread'[r] = "done"
                /\ local_stats_data'[r] = local_stats_data[r]]_vars
    /\ \A r \in Runs :
        ("cancel" \in hist[r] /\ MonitorLaunched(r))
            ~> (monitor_thread[r] = "done")

\* C10: two executions of run() that overlap use distinct sandbox
\* identifiers (and each has its own sample buffer, the list of line 202).
C10_DistinctIdentifiers ==
    \A r, s \in Runs :
        r # s /\ Executing(r) /\ Executing(s)
        /\ container_name[r] # "none" /\ container_name[s] # "none"
            => container_name[r] # container_name[s]

\* C11: once a run has set the cancellation signal for its monitor, the
\* signal is not cleared while that monitor thread is still alive, whatever
\* another invocation of run() does.
C11_SignalNotClearedWhileAlive ==
    [][\A r \in Runs :
            "cancel" \in hist[r] /\ is_alive(r) /\ stop_monitoring
                => stop_monitoring']_vars

\* A fatal error was met: the configuration could not be loaded or a value
\* of it is invalid, the code directory is missing, the engine could not be
\* reached, or the image could not be built.
FatalError(r) == "fatal" \in hist[r]

\* C12: after a fatal error run() has returned a result with success false,
\* exit_code -1 and an error message, and that execution started no sandbox
\* and launched no monitor.
C12_FatalErrorReturns ==
    \A r \in Runs : FatalError(r) =>
        /\ Returned(r)
        /\ results[r].success = FALSE
        /\ results[r].exit_code = -1
        /\ results[r].error # "none"
        /\ ~SandboxStarted(r)
        /\ ~MonitorLaunched(r)

\* C13: when the statistics phase found the sample buffer empty (line 319),
\* the returned result has success false and the error 'No statistics were
\* collected.', whatever the exit code; when it found entries and none of
\* them parsed, the result has success false and another error message.
C13_EmptyOrUnparsable ==
    \A r \in Runs : Returned(r) =>
        /\ "saw_empty" \in hist[r] =>
            /\ results[r].success = FALSE
            /\ results[r].error = NoStatsError
        /\ "none_parsed" \in hist[r] =>
            /\ results[r].success = FALSE
            /\ results[r].error \notin {"none", NoStatsError}

\* The statistics phase of the run ended with a duration that is not positive.
NonPositiveDuration(r) ==
    Returned(r) /\ "stats" \in hist[r] /\ run_duration[r] <= 0

\* C14 as stated: with a duration that is not positive the result has
\* success false and an error message that is neither the empty-buffer
\* message nor the all-unparsable message, whatever the buffer holds.
C14_DurationErrorAlways ==
    \A r \in Runs : NonPositiveDuration(r) =>
        /\ results[r].success = FALSE
        /\ results[r].error \notin {"none", NoStatsError, NoneParsedError}

\* C14 as amended: with a duration that is not positive the result has
\* success false; a buffer found non-empty gives the duration message, which
\* differs from the two other messages, even when no entry parses; an empty
\* buffer gives the empty-buffer message.
C14_DurationErrorUnlessEmpty ==
    /\ DurationError \notin {NoStatsError, NoneParsedError}
    /\ \A r \in Runs : NonPositiveDuration(r) =>
        /\ results[r].success = FALSE
        /\ results[r].error \in {DurationError, NoStatsError}
        /\ "saw_empty" \notin hist[r] => results[r].error = DurationError
        /\ local_stats_data[r] = <<>> => results[r].error = NoStatsError

C14_Witness ==
    \E r \in Runs :
        /\ NonPositiveDuration(r)
        /\ local_stats_data[r] # <<>>
        /\ CountParsed(local_stats_data[r]) = 0
        /\ results[r].error = DurationError

\* The wait phase has ended: the wait returned, timed out or failed, and the
\* end of the run was recorded (lines 284-292).
WaitEnded(r) ==
    /\ hist[r] \cap {"wait_completed", "wait_timeout", "wait_error"} # {}
    /\ "cancel" \in hist[r]

\* C15: logs are fetched only after the wait phase; when the container is
\* missing or the read fails, results['logs'] holds a placeholder, the run
\* goes on through the statistics and the cleanup, and the failure leaves
\* the error field as it was (empty).
C15_LogFailureNotFatal ==
    \A r \in Runs :
        /\ pc[r] = "logs" \/ "logs" \in hist[r] => WaitEnded(r)
        /\ "logs_failed" \in hist[r] =>
            /\ results[r].logs \in {LogsNotFound, LogsError}
            /\ pc[r] \notin {"except", "except_join", "raised"}
            /\ pc[r] = "count" => results[r].error = "none"
            /\ Returned(r) => {"read", "stats", "cleanup"} \subseteq hist[r]

\* A run whose log retrieval failed and whose result has success true.
C15_Witness ==
    \E r \in Runs :
        /\ Returned(r)
        /\ "logs_failed" \in hist[r]
        /\ results[r].success = TRUE
        /\ results[r].error = "none"

\* C16: once results['error'] holds a message, no later step of the run
\* replaces it (a cleanup failure included): the field keeps the earliest
\* error, and a cleanup failure is written only into an empty field.
C16_EarliestErrorKept ==
    [][\A r \in Runs :
            /\ results[r].error # "none" =>
                    results'[r].error = results[r].error
            /\ results'[r].error = CleanupFailure =>
                    results[r].error \in {"none", CleanupFailure}]_vars

\* A run that had recorded an error and whose cleanup then failed.
C16_Witness ==
    \E r \in Runs :
        /\ Returned(r)
        /\ "cleanup_failed" \in hist[r]
        /\ results[r].error \notin {"none", CleanupFailure}

\* C17: a returned result has exit_code -1 exactly when the execution
\* started no sandbox.
C17_SentinelMeansNeverRan ==
    \A r \in Runs :
        Returned(r) => (results[r].exit_code = -1 <=> ~SandboxStarted(r))

\* The wait returned status 0, the program wrote nothing, and the buffer the
\* orchestrator read held an entry that parses, collected over a positive
\* duration.
NominalRun(r) ==
    /\ "wait_completed" \in hist[r]
    /\ container_exit_code[r] = 0
    /\ "no_output" \in hist[r]
    /\ "valid_sample" \in hist[r]
    /\ run_duration[r] > 0

\* C18 as stated: when the wait returned a status code c the returned result
\* has exit_code c; and when the run was nominal the result has success
\* true, exit_code 0, empty logs and samples_collected at least 1.
C18_NominalSuccess ==
    \A r \in Runs : Returned(r) /\ "wait_completed" \in hist[r] =>
        /\ results[r].exit_code = container_exit_code[r]
        /\ NominalRun(r) =>
            /\ results[r].success = TRUE
            /\ results[r].exit_code = 0
            /\ results[r].logs = ""
            /\ results[r].samples_collected >= 1

\* C18 as amended: the same, except that logs is the empty string only when
\* the log retrieval did not fail; when it failed, logs is a placeholder.
C18_NominalSuccessLogsRead ==
    \A r \in Runs : Returned(r) /\ "wait_completed" \in hist[r] =>
        /\ results[r].exit_code = container_exit_code[r]
        /\ container_exit_code[r] \in ExitCodes
        /\ NominalRun(r) =>
            /\ results[r].success = TRUE
            /\ results[r].exit_code = 0
            /\ results[r].samples_collected >= 1
            /\ "logs_failed" \notin hist[r] => results[r].logs = ""
            /\ "logs_failed" \in hist[r] =>
                    results[r].logs \in {LogsNotFound, LogsError}

C18_Witness ==
    \E r \in Runs :
        /\ Returned(r)
        /\ NominalRun(r)
        /\ "logs_failed" \notin hist[r]
        /\ results[r].success = TRUE

\* The orchestrator has issued its wait on the sandbox (line 270).
WaitIssued(r) ==
    hist[r] \cap {"wait_completed", "wait_timeout", "wait_error",
                  "wait_exception"} # {}

C20_MissingToolSurfaced ==
    /\ [][\A r \in Runs :
            "tool_missing" \in hist'[r] /\ "tool_missing" \notin hist[r] =>
                stop_monitoring' /\ monitor_thread'[r] = "done"]_vars
    /\ [](\A r \in Runs :
            /\ Returned(r)
            /\ {"tool_missing", "joined"} \subseteq hist[r]
            /\ results[r].samples_collected = 0
            => results[r].error \notin {"none", NoStatsError})

\* The power computation of lines 341-358 has been carried out.
PowerDone == calc.fn = "power" /\ calc.done

\* The worked example: 50 %, 2.0 W per core, 512 MiB, 3.0 W per GB, 5.0 W
\* baseline, 10 s (with the 0.5 cores of line 21).
WorkedExample ==
    [total_cpu_perc_val |-> 50, total_mem_mib |-> 512, count |-> 1,
     POWER_CPU_PER_CORE_WATT |-> <<2, 1>>, POWER_RAM_PER_GB_WATT |-> <<3, 1>>,
     POWER_BASELINE_CONTAINER_WATT |-> <<5, 1>>, run_duration |-> 10]

\* C21: the power is (avg_cpu/100) * cores * watts per core + (avg_mem/1024)
\* * watts per GB + baseline and the energy is (power/1000) * (duration/3600);
\* the energy is not negative; with zero averages the power is the baseline;
\* the worked example gives 7.0 W (and 7/360000 kWh); results holds the power
\* rounded to three decimals and the energy as computed.
C21_PowerFormula ==
    PowerDone =>
        LET a == calc.args
            o == calc.out
            cpu == o.avg_cpu_perc_calc
            mem == o.avg_mem_mib_calc
            power == o.total_avg_power_watt_calc
        IN  /\ cpu[1] * a.count = a.total_cpu_perc_val * cpu[2]
            /\ mem[1] * a.count = a.total_mem_mib * mem[2]
            /\ power =
                RatAdd(RatAdd(RatMul(RatMul(RatDiv(cpu, <<100, 1>>),
                                            ALLOCATED_CPU_CORES),
                                     a.POWER_CPU_PER_CORE_WATT),
                              RatMul(RatDiv(mem, <<1024, 1>>),
                                     a.POWER_RAM_PER_GB_WATT)),
                       a.POWER_BASELINE_CONTAINER_WATT)
            /\ o.energy_kwh =
                RatMul(RatDiv(power, <<1000, 1>>),
                       RatDiv(<<a.run_duration, 1>>, <<3600, 1>>))
            /\ o.energy_kwh[1] >= 0 /\ o.energy_kwh[2] > 0
            /\ cpu[1] = 0 /\ mem[1] = 0 =>
                    power = a.POWER_BASELINE_CONTAINER_WATT
            /\ a = WorkedExample =>
                    /\ power = <<7, 1>>
                    /\ o.avg_power_watt = <<7, 1>>
                    /\ o.energy_kwh = <<7, 360000>>
            /\ o.avg_power_watt = Round(power, 1000)

C21_Witness ==
    /\ PowerDone
    /\ calc.args = WorkedExample
    /\ calc.out.total_avg_power_watt_calc = <<7, 1>>

\* C22: a run that started a sandbox does not return before its cleanup block
\* has run, whatever happened before; and the remove request is issued only
\* with the sandbox observed not running by the reload, or after the stop
\* request returned.
C22_CleanupBeforeReturn ==
    \A r \in Runs :
        /\ Returned(r) /\ SandboxStarted(r) => "cleanup" \in hist[r]
        /\ pc[r] = "cleanup_remove" =>
            /\ "cleanup" \in hist[r]
            /\ container[r] = "exited"
        /\ "removed" \in hist[r] => "cleanup" \in hist[r]

\* A run that ended in the exception handler, stopped its sandbox in the
\* cleanup and removed it.
C22_Witness ==
    \E r \in Runs :
        /\ Returned(r)
        /\ {"wait_exception", "cleanup_stopped", "removed"} \subseteq hist[r]

\* The monitor of r ends because docker stats failed for the container
\* (lines 79-82).
GonePoll(r) ==
    /\ monitor_thread[r] = "stats"
    /\ monitor_thread'[r] = "done"
    /\ "tool_missing" \notin hist'[r]

\* C23: a poll that reports the sandbox gone ends the monitor thread, leaves
\* the cancellation signal as it was, records no error (the results are
\* untouched) and leaves the buffer unchanged; and a finished monitor never
\* runs again.
C23_GoneStopsQuietly ==
    [][\A r \in Runs :
            /\ GonePoll(r) =>
                /\ stop_monitoring' = stop_monitoring
                /\ results' = results
                /\ local_stats_data' = local_stats_data
                /\ hist' = hist
            /\ monitor_thread[r] = "done" => monitor_thread'[r] = "done"]_vars

\* A monitor that ended on a gone poll with a sample in its buffer: it has
\* finished although the signal was never set.
C23_Witness ==
    \E r \in Runs :
        /\ monitor_thread[r] = "done"
        /\ ~stop_monitoring
        /\ "cancel" \notin hist[r] /\ "tool_missing" \notin hist[r]
        /\ Len(local_stats_data[r]) >= 1

\* A poll of r's monitor that ends the iteration without a sample: not ready
\* (lines 75-78) or a transient error (lines 87-89).
SkippedPoll(r) == monitor_thread[r] = "stats" /\ monitor_thread'[r] = "loop"

\* C24: a poll that is not ready or fails with a transient error leaves the
\* buffer unchanged and the monitor alive, back at its loop test; the monitor
\* ends only at a loop test that sees the signal set, or at a poll that
\* reports the sandbox gone or the docker command missing (which sets the
\* signal); and a valid poll appends exactly one sample.
C24_SkippedPollKeepsPolling ==
    [][\A r \in Runs :
            /\ SkippedPoll(r) =>
                /\ local_stats_data' = local_stats_data
                /\ stop_monitoring' = stop_monitoring
                /\ is_alive(r)'
            /\ monitor_thread[r] # "done" /\ monitor_thread'[r] = "done" =>
                \/ monitor_thread[r] = "loop" /\ stop_monitoring
                \/ GonePoll(r) /\ "gone" \in StatsResults
                \/ monitor_thread[r] = "stats" /\ stop_monitoring'
                    /\ "tool_missing" \in hist'[r]
            /\ monitor_thread[r] = "append" /\ monitor_thread'[r] # "append" =>
                /\ Len(local_stats_data'[r]) = Len(local_stats_data[r]) + 1
                /\ SubSeq(local_stats_data'[r], 1, Len(local_stats_data[r]))
                        = local_stats_data[r]
                /\ monitor_thread'[r] = "loop"
            /\ monitor_thread[r] # "append" =>
                local_stats_data'[r] = local_stats_data[r]
                    \/ (pc[r] = "idle" /\ local_stats_data'[r] = <<>>)]_vars

\* A monitor that met a transient error and went on to collect a sample.
C24_Witness ==
    \E r \in Runs :
        /\ "poll_error" \in hist[r]
        /\ is_alive(r)
        /\ Len(local_stats_data[r]) >= 1

ParseMemDone == calc.fn = "parse_mem" /\ calc.done

\* The numbers among NumberTexts and the value each denotes.
WellFormedNumbers ==
    { <<"0">>, <<"1">>, <<"5", "1", "2">>, <<"1", "0", ".", "5">>,
      <<".", "5">>, <<"-", "1">> }

NumberDenoted(n) ==
    CASE n = <<"0">> -> <<0, 1>>
      [] n = <<"1">> -> <<1, 1>>
      [] n = <<"5", "1", "2">> -> <<512, 1>>
      [] n = <<"1", "0", ".", "5">> -> <<21, 2>>
      [] n = <<".", "5">> -> <<1, 2>>
      [] OTHER -> <<0 - 1, 1>>

\* MiB per one of the unit, by the unit's length and first letter.
MiBPerUnit(u) ==
    IF Len(u) = 1 THEN <<1, 1048576>>
    ELSE IF u[1] \in {"K", "k"} THEN <<1, 1024>>
    ELSE IF u[1] \in {"M", "m"} THEN <<1, 1>>
    ELSE <<1024, 1>>

\* C25: parse_mem_string raises for no text; a number followed by B, KiB, MiB
\* or GiB in any capitalisation gives the number divided by 1024*1024, divided
\* by 1024, unchanged, or multiplied by 1024; '10.5MiB' gives 10.5, '1GiB'
\* 1024.0, '512KiB' 0.5, '0B' 0.0 and 'garbage' 0.0.
C25_ParseMemToMiB ==
    ParseMemDone =>
        /\ calc.out.raised = "none"
        /\ \A n \in WellFormedNumbers, u \in UnitTexts \ {<<>>},
              sep \in Blanks, pad \in Blanks :
                calc.args = pad \o n \o sep \o u \o pad
                    => calc.out.value = RatMul(NumberDenoted(n), MiBPerUnit(u))
        /\ calc.args = <<"1", "0", ".", "5", "M", "i", "B">>
                => calc.out.value = <<21, 2>>
        /\ calc.args = <<"1", "G", "i", "B">> => calc.out.value = <<1024, 1>>
        /\ calc.args = <<"5", "1", "2", "K", "i", "B">>
                => calc.out.value = <<1, 2>>
        /\ calc.args = <<"0", "B">> => calc.out.value = <<0, 1>>
        /\ calc.args = <<"g", "a", "r", "b", "a", "g", "e">>
                => calc.out.value = <<0, 1>>

C25_Witness ==
    /\ ParseMemDone
    /\ calc.args = <<"1", "G", "I", "B">>
    /\ calc.out = [raised |-> "none", value |-> <<1024, 1>>]

\* C26: a returned result with success = false has every derived field
\* (avg_cpu_percent, avg_mem_mib, peak_mem_mib, avg_power_watt, energy_kwh) at
\* its initial 0.0; the derived fields are stored only in a result with
\* success = true.
C26_DerivedZeroUnlessSuccess ==
    \A r \in Runs :
        Returned(r) /\ ~ReturnedResult(r).success
            => ReturnedResult(r).derived = "zero"

C26_Witness ==
    \E r \in Runs :
        /\ Returned(r)
        /\ "none_parsed" \in hist[r]
        /\ ~ReturnedResult(r).success
        /\ ReturnedResult(r).derived = "zero"

C28_CancelledMonitorStops ==
    [][\A r \in Runs :
            "cancel" \in hist[r] /\ monitor_thread[r] = "loop"
                => monitor_thread'[r] \in {"loop", "done"}]_vars

\* C29: after the orchestrator has set the cancellation signal (lines 292,
\* 389) the monitor appends at most one further sample, that of the poll in
\* flight, before it terminates.
C29_OneSampleAfterCancel ==
    \A r \in Runs : "second_late_sample" \notin hist[r]

\* C30: once the statistics phase is reached (line 316), the returned result
\* has success = true exactly when the buffer read there is non-empty and
\* holds an entry that parses and the run duration is positive, whatever the
\* exit code (zero, non-zero or the -99 of line 274).
C30_SuccessFromStatsOnly ==
    \A r \in Runs :
        Returned(r) /\ "read" \in hist[r] =>
            (results[r].success <=>
                /\ results[r].samples_collected >= 1
                /\ "valid_sample" \in hist[r]
                /\ run_duration[r] > 0)

====
